---- MODULE Spec2Model ----
(***************************************************************************)
(* NYC subway tracker: the server (server.js, lib/auth.js, lib/db.js) and  *)
(* the browser page (app.js).                                              *)
(*                                                                         *)
(* The store is the three SQLite tables.  A request is one atomic step:    *)
(* Node runs the synchronous middleware chain and handler of a request to  *)
(* completion before it looks at the next one.  last is the message in     *)
(* flight: the request just handled with its response, until the client    *)
(* has received it (Receive).                                              *)
(*                                                                         *)
(* Text is modelled as a sequence of character codes, so that lower-casing,*)
(* length tests, the PIN pattern and SQLite's text comparison are computed *)
(* on the characters.  A timestamp text is modelled field by field:        *)
(*   <<date, separator, time-of-day>>          'YYYY-MM-DD HH:MM:SS'       *)
(*   <<date, separator, time-of-day, millis>>  'YYYY-MM-DDTHH:MM:SS.sssZ'  *)
(* The date and the time-of-day are fixed-width zero-padded digit groups,  *)
(* so comparing them as numbers is comparing them as text; the separator   *)
(* is the character code of ' ' or 'T'.                                    *)
(***************************************************************************)
EXTENDS Integers, Sequences, FiniteSets, TLC

VARIABLES users, sessions, visited_stations, seq, now, issued, loggedOut, last,
          client, visitedStations, toggles, startup

\* the browser page (app.js): client is the page with its cookie jar,
\* visitedStations the local mirror, toggles the toggleStation calls running
clientVars == <<client, visitedStations, toggles>>

\* the server process at startup (lib/db.js): startup holds the tables the
\* store file has and the place initSchema has reached
vars == <<users, sessions, visited_stations, seq, now, issued, loggedOut, last,
          client, visitedStations, toggles, startup>>

(* ----------------------------- bounds --------------------------------- *)
\* session tokens issued in one behaviour
MaxTokens == 2
\* visited_stations rows inserted in one behaviour (AUTOINCREMENT ids)
MaxRowId == 3

(* --------------------------- JS values -------------------------------- *)
Str(cs) == [type |-> "string", chars |-> cs]
Num(cs) == [type |-> "number", chars |-> cs]
Undefined == [type |-> "undefined", chars |-> <<>>]

\* !v for the value kinds above
Falsy(v) ==
  \/ v.type = "undefined"
  \/ v.type = "string" /\ v.chars = <<>>
  \/ v.type = "number" /\ v.chars = <<48>>

\* faulty variant: the text is left as typed
ToLowerCase_Identity(cs) == cs

\* String.prototype.toLowerCase on the characters (ASCII letters)
ToLowerCase(cs) ==
  [i \in 1..Len(cs) |-> IF cs[i] >= 65 /\ cs[i] <= 90 THEN cs[i] + 32 ELSE cs[i]]

IsDigit(c) == c >= 48 /\ c <= 57

\* username.length < 3 || username.length > 20 ; .length of a number is
\* undefined and both comparisons with undefined are false
BadLength(username) ==
  /\ username.type = "string"
  /\ (Len(username.chars) < 3 \/ Len(username.chars) > 20)

\* /^\d{4,6}$/.test(pin) ; test() converts its argument to a string
PinPattern(pin) ==
  /\ Len(pin.chars) >= 4
  /\ Len(pin.chars) <= 6
  /\ \A i \in 1..Len(pin.chars) : IsDigit(pin.chars[i])

(* ---------------------------- sample inputs ---------------------------- *)
bob == <<98, 111, 98>>
Bob == <<66, 111, 98>>
ab == <<97, 98>>
kartikye == <<107, 97, 114, 116, 105, 107, 121, 101>>
long21 == [i \in 1..21 |-> 97]
pin1234 == <<49, 50, 51, 52>>
pin4569 == <<52, 53, 54, 57>>
pin12 == <<49, 50>>
pin12a4 == <<49, 50, 97, 52>>

\* the request bodies {username, pin} tried by POST /auth/login: every
\* well-formed pair, and each malformed username or pin with a well-formed partner
LoginBodies ==
  ({Str(bob), Str(Bob), Str(kartikye)} \X {Str(pin1234), Str(pin4569)})
    \cup ({Str(ab), Str(long21), Num(pin1234), Undefined} \X {Str(pin1234)})
    \cup ({Str(Bob)} \X {Str(pin12), Str(pin12a4), Undefined})

\* the bodies tried by POST /auth/register: the same, except that a new
\* account always takes the PIN 1234
RegisterBodies ==
  LoginBodies \ {<<Str(bob), Str(pin4569)>>, <<Str(Bob), Str(pin4569)>>}

\* the :username values tried by GET /auth/check
CheckNames == {Str(bob), Str(Bob), Str(kartikye), Str(ab)}

Stations == {"A01", "B02"}

\* a record of the station catalog: name and lines are texts, lines holding
\* the line names separated by spaces
Station(id, name, lines, lat, lon) ==
  [id |-> id, name |-> name, lines |-> lines, lat |-> lat, lon |-> lon]

\* the catalog of the two stations: "a" on line A in the north-west, "b" on
\* line L in the south-east
Catalog ==
  <<Station("A01", <<97>>, <<65>>, 2, 1), Station("B02", <<98>>, <<76>>, 1, 2)>>

\* 'all', the line filter of a new page
ALL == <<97, 108, 108>>

(* ------------------------------ time ----------------------------------- *)
\* const SESSION_MAX_AGE = 30 * 24 * 60 * 60 * 1000, in days
SESSION_MAX_AGE_DAYS == 30
\* the sampled instants <<day, second of the day>>: the start, the day a
\* session issued at the start expires (after its second of expiry), and the
\* day after
Instants ==
  {<<0, 0>>, <<SESSION_MAX_AGE_DAYS, 1>>, <<SESSION_MAX_AGE_DAYS + 1, 0>>}

\* instant a strictly before instant b
Before(a, b) == a[1] < b[1] \/ (a[1] = b[1] /\ a[2] < b[2])

SPACE == 32
LETTER_T == 84

\* SQLite datetime('now') and CURRENT_TIMESTAMP: 'YYYY-MM-DD HH:MM:SS'
SqliteDatetime(t) == <<t[1], SPACE, t[2]>>

\* Date.prototype.toISOString: 'YYYY-MM-DDTHH:MM:SS.sssZ'
ToISOString(t) == <<t[1], LETTER_T, t[2], 0>>

\* the instant a timestamp text denotes
InstantOf(text) == <<text[1], text[3]>>

\* SQLite's comparison of two TEXT values (memcmp, the shorter first on a tie)
RECURSIVE TextLess(_, _)
TextLess(a, b) ==
  IF a = <<>> THEN b # <<>>
  ELSE IF b = <<>> THEN FALSE
  ELSE IF Head(a) # Head(b) THEN Head(a) < Head(b)
  ELSE TextLess(Tail(a), Tail(b))

(* ------------------------------ lib/auth.js ---------------------------- *)
NoCookie == 0
UnknownToken == 0 - 1
NoUser == [id |-> 0, username |-> <<>>]

\* generateSessionId: 24 random bytes; as an opaque value, a token never issued
\* before
generateSessionId == seq.token

(* Math.random is a pseudo-random generator (V8: an xorshift generator):   *)
(* each call steps a hidden state and returns it as a fraction in [0, 1).  *)
(* The state is modelled with RandomBits bits.                             *)
RandomBits == 10

\* const bytes = new Uint8Array(24)
TokenBytes == 24

\* the number of states
Modulus == 2 ^ RandomBits

\* a ^ b on non-negative integers
RECURSIVE Xor(_, _)
Xor(a, b) ==
  IF a = 0 THEN b
  ELSE IF b = 0 THEN a
  ELSE ((a + b) % 2) + (2 * Xor(a \div 2, b \div 2))

\* one step of the generator: x ^= x << 4; x ^= x >> 3; x ^= x << 7
Xorshift(x) ==
  LET a == Xor(x, (x * 16) % Modulus)
      b == Xor(a, a \div 8)
  IN Xor(b, (b * 128) % Modulus)

\* the states of the generator after each of n calls of Math.random()
RECURSIVE MathRandom(_, _)
MathRandom(state, n) ==
  IF n = 0 THEN <<>>
  ELSE LET x == Xorshift(state) IN <<x>> \o MathRandom(x, n - 1)

\* Math.floor(Math.random() * 256), for the state the call has reached
RandomByte(state) == (state * 256) \div Modulus

\* b.toString(16).padStart(2, '0'), joined: two lower-case hex digits a byte
HexText(bytes) ==
  LET digit(d) == IF d < 10 THEN 48 + d ELSE 87 + d IN
  [i \in 1..(2 * Len(bytes)) |->
     IF i % 2 = 1 THEN digit(bytes[(i + 1) \div 2] \div 16)
     ELSE digit(bytes[i \div 2] % 16)]

\* the text generateSessionId returns when Math.random is in the state given
SessionIdText(state) ==
  LET states == MathRandom(state, TokenBytes) IN
  HexText([i \in 1..TokenBytes |-> RandomByte(states[i])])

\* the state of Math.random after generateSessionId
AfterSessionId(state) == MathRandom(state, TokenBytes)[TokenBytes]

\* faulty variant: the username is stored as typed
createUser_KeepCase(username, pin) ==
  [id |-> seq.user, username |-> username.chars, pin |-> pin.chars]

\* the users row createUser inserts: (username.toLowerCase(), pin)
createUser(username, pin) ==
  [id |-> seq.user, username |-> ToLowerCase(username.chars), pin |-> pin.chars]

\* username TEXT UNIQUE: the insert of this row raises SQLITE_CONSTRAINT_UNIQUE
UsernameTaken(row) == \E u \in users : u.username = row.username

\* faulty variant: the lookup compares the username as typed
verifyUser_CaseSensitive(username, pin) ==
  LET hit == {u \in users : u.username = username.chars /\ u.pin = pin.chars}
  IN IF hit = {} THEN NoUser ELSE CHOOSE u \in hit : TRUE

\* SELECT * FROM users WHERE username = ? AND pin = ? on the table rows: the
\* whole row, or null
verifyUserIn(rows, username, pin) ==
  LET hit == {u \in rows : u.username = ToLowerCase(username.chars)
                           /\ u.pin = pin.chars}
  IN IF hit = {} THEN NoUser ELSE CHOOSE u \in hit : TRUE

\* verifyUser(username, pin), on the users table
verifyUser(username, pin) == verifyUserIn(users, username, pin)

\* faulty variant: the lookup compares the username as typed
getUserByUsername_CaseSensitive(username) ==
  \E u \in users : u.username = username.chars

\* SELECT * FROM users WHERE username = ?
getUserByUsername(username) ==
  \E u \in users : u.username = ToLowerCase(username.chars)

\* the sessions row createSession inserts; id is the session id as an opaque
\* value, text its characters
createSession(userId) ==
  [id |-> generateSessionId, text |-> SessionIdText(seq.random),
   user_id |-> userId, created_at |-> SqliteDatetime(now),
   expires_at |-> ToISOString(<<now[1] + SESSION_MAX_AGE_DAYS, now[2]>>)]

\* WHERE s.id = ? AND s.expires_at > datetime('now')
SessionRowMatches(s, sessionId) ==
  /\ s.id = sessionId
  /\ TextLess(SqliteDatetime(now), s.expires_at)

\* faulty variant: the join has no ON clause
getUserFromSession_NoJoin(sessionId) ==
  IF sessionId = NoCookie THEN NoUser
  ELSE LET hit == {u \in users : \E s \in sessions :
                      SessionRowMatches(s, sessionId)}
       IN IF hit = {} THEN NoUser
          ELSE LET u == CHOOSE u \in hit : TRUE
               IN [id |-> u.id, username |-> u.username]

\* SELECT u.id, u.username FROM sessions s JOIN users u ON s.user_id = u.id ...
getUserFromSession(sessionId) ==
  IF sessionId = NoCookie THEN NoUser
  ELSE LET hit == {u \in users : \E s \in sessions :
                      SessionRowMatches(s, sessionId) /\ s.user_id = u.id}
       IN IF hit = {} THEN NoUser
          ELSE LET u == CHOOSE u \in hit : TRUE
               IN [id |-> u.id, username |-> u.username]

\* faulty variant: the row is left in place
deleteSession_Noop(sessionId) == sessions

\* faulty variant: every session of the token's user is deleted
deleteSession_WholeUser(sessionId) ==
  {s \in sessions : \A t \in sessions : t.id = sessionId => s.user_id # t.user_id}

\* DELETE FROM sessions WHERE id = ?
deleteSession(sessionId) == {s \in sessions : s.id # sessionId}

(* ------------------------------ responses ------------------------------ *)
BaseLast ==
  [op |-> "idle", cookie |-> NoCookie, user |-> NoUser,
   username |-> Undefined, pin |-> Undefined, stationId |-> "",
   queryUid |-> 0, had |-> FALSE, known |-> FALSE,
   status |-> 0, error |-> "", userOut |-> NoUser, list |-> <<>>,
   deleted |-> FALSE, deletedCount |-> 0, exists |-> FALSE,
   setCookie |-> NoCookie, clearCookie |-> FALSE, thrown |-> FALSE]

\* cookies a client can present: none, a token never issued, an issued token
Cookies == {NoCookie, UnknownToken} \cup 1..(seq.token - 1)

\* new SubwayTracker(): no user, an empty mirror, no marker; session_id is the
\* browser's cookie and grouped tells whether getComplexStations is defined.
\* markers are the stations whose marker is filled, checkboxes those whose
\* checkbox is checked; ok records that every api/visited request of the page
\* was answered OK so far; error is the text shown in auth-error ("" when it
\* is hidden) and auths are the handleAuth calls running; inits counts the
\* calls of initMap and listeners those of attachEventListeners; stations is
\* the catalog STATIONS, list the items of station-list (id, text and whether
\* displayed), query the content of search-box and stats the numbers shown in
\* visited-count and total-count
NewPage(grouped) ==
  [page |-> "boot", session_id |-> NoCookie, user |-> NoUser, grouped |-> grouped,
   markers |-> {}, checkboxes |-> {}, ok |-> TRUE, error |-> "", auths |-> <<>>,
   inits |-> 0, listeners |-> 0, stations |-> Catalog,
   currentLineFilter |-> ALL, list |-> <<>>, query |-> <<>>,
   stats |-> [visited |-> 0, total |-> 0]]

\* no page is open
NoPage ==
  /\ client = [NewPage(FALSE) EXCEPT !.page = "none"]
  /\ visitedStations = <<>>
  /\ toggles = <<>>

\* a store file as initSchema finds it: users and sessions tell whether the
\* table exists, visited is the shape of visited_stations ("absent", "legacy"
\* without user_id, "current" with it), legacy the rows of the legacy table
\* and accounts the rows of users
Store(hasUsers, hasSessions, visited, legacy, accounts) ==
  [users |-> hasUsers, sessions |-> hasSessions, visited |-> visited,
   legacy |-> legacy, accounts |-> accounts]

\* a store file with no tables
NoTables == Store(FALSE, FALSE, "absent", <<>>, {})

\* the server process: copy is the initSchema of lib/db.js it runs, pc the
\* statement it is about to execute ("off": not running, "done": initSchema
\* returned, "failed": initSchema threw), oldData, kartikyeId and i the locals
\* of the migration, runs the startups so far, rerun whether this startup
\* found the store a completed startup left, origin the store the first
\* startup found, found the shape of visited_stations this startup found
Process(copy, origin) ==
  [copy |-> copy, pc |-> "off", users |-> origin.users,
   sessions |-> origin.sessions, visited |-> origin.visited,
   legacy |-> origin.legacy, oldData |-> <<>>, kartikyeId |-> 0, i |-> 0,
   runs |-> 0, rerun |-> FALSE, origin |-> origin, found |-> origin.visited,
   error |-> ""]

\* the first initSchema has returned on the store given: the server listens
StartedOn(origin) ==
  [Process(1, origin) EXCEPT !.pc = "done", !.users = TRUE, !.sessions = TRUE,
                             !.visited = "current", !.legacy = <<>>, !.runs = 1]

\* the same on a fresh install
Started == StartedOn(NoTables)

\* the store after initSchema on a fresh install, in a process whose
\* Math.random starts in the state given
FreshStoreSeeded(seed) ==
  /\ users = {[id |-> 1, username |-> kartikye, pin |-> pin4569]}
  /\ sessions = {}
  /\ visited_stations = {}
  /\ seq = [user |-> 2, token |-> 1, row |-> 1, random |-> seed]
  /\ now = <<0, 0>>
  /\ issued = {}
  /\ loggedOut = {}
  /\ last = BaseLast
  /\ startup = Started

\* the same, for one state of Math.random
FreshStore == FreshStoreSeeded(1)

Init == FreshStore /\ NoPage

(* ------------------------- lib/db.js: migration ------------------------ *)
\* rows of the legacy visited_stations table (station_id, visited_at)
MaxLegacyRows == 1

\* a NULL visited_at
Null == <<>>

\* the instant the server starts on a legacy store: the first second of a
\* sampled day, so that a later instant of the same day is sampled too
StartupInstant == <<SESSION_MAX_AGE_DAYS, 0>>

\* SELECT station_id, visited_at FROM visited_stations on the legacy table:
\* each row was stamped before the server started, or carries no stamp
LegacyTablesOf(rows) ==
  LET LegacyRows == [station_id : Stations,
                     visited_at : {SqliteDatetime(<<0, 0>>), Null}]
  IN {d \in UNION {[1..n -> LegacyRows] : n \in 0..rows} :
        \A i, j \in 1..Len(d) : d[i].station_id = d[j].station_id => i = j}

LegacyTables == LegacyTablesOf(MaxLegacyRows)

\* insert.run(kartikyeId, row.station_id, row.visited_at || new Date().toISOString())
MigratedRows(oldData, kartikyeId) ==
  {[id |-> i, user_id |-> kartikyeId, station_id |-> oldData[i].station_id,
    visited_at |-> IF oldData[i].visited_at = Null
                   THEN ToISOString(StartupInstant)
                   ELSE oldData[i].visited_at] : i \in 1..Len(oldData)}

\* the store after initSchema has migrated a legacy table
InitMigrated ==
  \E oldData \in LegacyTables :
    /\ users = {[id |-> 1, username |-> kartikye, pin |-> pin4569]}
    /\ sessions = {}
    /\ visited_stations = MigratedRows(oldData, 1)
    /\ seq = [user |-> 2, token |-> 1, row |-> Len(oldData) + 1, random |-> 1]
    /\ now = StartupInstant
    /\ issued = {}
    /\ loggedOut = {}
    /\ last = BaseLast
    /\ startup = StartedOn(Store(FALSE, FALSE, "legacy", oldData, {}))
    /\ NoPage

\* the clock moves on to a later instant
Tick ==
  /\ last = BaseLast
  /\ \E t \in Instants : Before(now, t) /\ now' = t
  /\ UNCHANGED <<users, sessions, visited_stations, seq, issued, loggedOut, last>>

\* the client receives the response
Receive ==
  /\ last # BaseLast
  /\ last' = BaseLast
  /\ UNCHANGED <<users, sessions, visited_stations, seq, now, issued, loggedOut>>

(* --------------------------- auth routes ------------------------------- *)
\* res.status(s).json({ error: e })
Fail(req, s, e) == [req EXCEPT !.status = s, !.error = e]

\* an exception leaves the handler: Express's default error handler answers
\* 500 with an HTML page, not JSON
Thrown(req) ==
  [req EXCEPT !.status = 500, !.error = "Internal Server Error", !.thrown = TRUE]

\* authMiddleware: the request as it reaches a handler, with req.user set
Request(op, c) ==
  [BaseLast EXCEPT !.op = op, !.cookie = c, !.user = getUserFromSession(c)]

\* no request is being answered
Idle == last = BaseLast

\* the request of a route whose handler reads neither the cookie nor req.user;
\* known notes whether the username it names (a string) had an account
Anonymous(op, username, pin) ==
  [BaseLast EXCEPT !.op = op, !.username = username, !.pin = pin,
     !.known = (username.type = "string" /\ getUserByUsername(username))]

\* faulty variant: the row read from the store is sent as it is
PublicUser_WholeRow(user) == user

\* user: { id: user.id, username: user.username }
PublicUser(user) == [id |-> user.id, username |-> user.username]

\* GET /auth/me
AuthMe(c) ==
  LET req == Request("me", c) IN
  /\ Idle
  /\ last' = IF req.user # NoUser
             THEN [req EXCEPT !.status = 200, !.userOut = PublicUser(req.user)]
             ELSE Fail(req, 401, "Not authenticated")
  /\ UNCHANGED <<users, sessions, visited_stations, seq, now, issued, loggedOut>>

\* createSession(user.id); res.cookie('session_id', ...); res.json({success, user})
StartSession(req, user) ==
  LET row == createSession(user.id) IN
  /\ seq.token <= MaxTokens
  /\ sessions' = sessions \cup {row}
  /\ issued' = issued \cup {[token |-> row.id, user |-> user, at |-> now]}
  /\ last' = [req EXCEPT !.status = 200, !.userOut = user, !.setCookie = row.id]

\* faulty variant: an unknown username is told apart from a wrong PIN
InvalidLogin_Leaky(req, username) ==
  IF getUserByUsername(username)
  THEN Fail(req, 401, "Invalid PIN")
  ELSE Fail(req, 404, "No such user")

\* if (!user) return res.status(401).json({ error: 'Invalid username or PIN' })
InvalidLogin(req, username) == Fail(req, 401, "Invalid username or PIN")

\* POST /auth/register
Register(username, pin) ==
  LET req == Anonymous("register", username, pin)
      row == createUser(username, pin)
      rejected ==
        IF Falsy(username) \/ Falsy(pin)
          THEN Fail(req, 400, "Username and PIN required")
        ELSE IF BadLength(username)
          THEN Fail(req, 400, "Username must be 3-20 characters")
        ELSE IF ~PinPattern(pin)
          THEN Fail(req, 400, "PIN must be 4-6 digits")
        ELSE IF username.type # "string"
          THEN Thrown(req)
        ELSE IF UsernameTaken(row)
          THEN Fail(req, 400, "Username already taken")
        ELSE req
  IN /\ Idle
     /\ IF rejected # req
        THEN /\ last' = rejected
             /\ UNCHANGED <<users, sessions, visited_stations, seq, now, issued,
                            loggedOut>>
        ELSE /\ users' = users \cup {row}
             /\ StartSession(req, PublicUser([id |-> row.id, username |-> row.username]))
             /\ seq' = [seq EXCEPT !.user = @ + 1, !.token = @ + 1,
                                    !.random = AfterSessionId(@)]
             /\ UNCHANGED <<visited_stations, now, loggedOut>>

\* POST /auth/login
Login(username, pin) ==
  LET req == Anonymous("login", username, pin)
      user == verifyUser(username, pin)
      rejected ==
        IF Falsy(username) \/ Falsy(pin)
          THEN Fail(req, 400, "Username and PIN required")
        ELSE IF username.type # "string"
          THEN Thrown(req)
        ELSE IF user = NoUser
          THEN InvalidLogin(req, username)
        ELSE req
  IN /\ Idle
     /\ IF rejected # req
        THEN /\ last' = rejected
             /\ UNCHANGED <<users, sessions, visited_stations, seq, now, issued,
                            loggedOut>>
        ELSE /\ StartSession(req, PublicUser(user))
             /\ seq' = [seq EXCEPT !.token = @ + 1,
                                    !.random = AfterSessionId(@)]
             /\ UNCHANGED <<users, visited_stations, now, loggedOut>>

\* GET /auth/check/:username
Check(username) ==
  LET req == Anonymous("check", username, Undefined) IN
  /\ Idle
  /\ last' = [req EXCEPT !.status = 200, !.exists = getUserByUsername(username)]
  /\ UNCHANGED <<users, sessions, visited_stations, seq, now, issued, loggedOut>>

\* POST /auth/logout
Logout(c) ==
  LET req == Request("logout", c) IN
  /\ Idle
  /\ sessions' = IF c # NoCookie THEN deleteSession(c) ELSE sessions
  /\ loggedOut' = loggedOut \cup ({c} \cap {i.token : i \in issued})
  /\ issued' = {i \in issued : i.token # c}
  /\ last' = [req EXCEPT !.status = 200, !.clearCookie = TRUE]
  /\ UNCHANGED <<users, visited_stations, seq, now>>

(* ---------------------------- API routes ------------------------------- *)
\* requireAuth
requireAuth(req) == req.user # NoUser

Unauthorized(req) == Fail(req, 401, "Authentication required")

\* faulty variant: the user id is taken from the request
queryUserId_FromClient(req, clientUid) == clientUid

\* the user id bound to the statement's user_id parameter: req.user.id
queryUserId(req, clientUid) == req.user.id

\* faulty variant: the table has no UNIQUE(user_id, station_id)
ConflictingRows_None(userId, stationId) == {}

\* UNIQUE(user_id, station_id): the rows a new (user_id, station_id) collides with
ConflictingRows(userId, stationId) ==
  {r \in visited_stations : r.user_id = userId /\ r.station_id = stationId}

\* INSERT OR REPLACE INTO visited_stations (user_id, station_id) VALUES (?, ?)
InsertOrReplace(userId, stationId) ==
  (visited_stations \ ConflictingRows(userId, stationId)) \cup
    {[id |-> seq.row, user_id |-> userId, station_id |-> stationId,
      visited_at |-> SqliteDatetime(now)]}

\* faulty variant: the DELETE is not scoped by user
DeleteOneRows_AnyUser(userId, stationId) ==
  {r \in visited_stations : r.station_id = stationId}

\* the rows DELETE ... WHERE user_id = ? AND station_id = ? removes
DeleteOneRows(userId, stationId) ==
  {r \in visited_stations : r.user_id = userId /\ r.station_id = stationId}

\* faulty variant: the DELETE has no WHERE clause
DeleteAllRows_Everyone(userId) == visited_stations

\* the rows DELETE ... WHERE user_id = ? removes
DeleteAllRows(userId) == {r \in visited_stations : r.user_id = userId}

\* SELECT station_id FROM visited_stations WHERE user_id = ?
SelectVisited(userId) == {r \in visited_stations : r.user_id = userId}

\* ORDER BY visited_at: every order of the rows that ascends in visited_at
\* (SQL leaves the order of rows with equal keys open)
OrderByVisitedAt(rows) ==
  LET n == Cardinality(rows) IN
  {f \in [1..n -> rows] :
     /\ \A i, j \in 1..n : i # j => f[i] # f[j]
     /\ \A i, j \in 1..n : i < j => ~TextLess(f[j].visited_at, f[i].visited_at)}

\* GET /api/visited
ListVisited(c, clientUid) ==
  LET req == Request("list", c) IN
  /\ Idle
  /\ IF ~requireAuth(req)
     THEN last' = Unauthorized(req)
     ELSE LET uid == queryUserId(req, clientUid) IN
          \E f \in OrderByVisitedAt(SelectVisited(uid)) :
            last' = [req EXCEPT !.status = 200, !.queryUid = uid,
                       !.list = [i \in 1..Len(f) |-> f[i].station_id]]
  /\ UNCHANGED <<users, sessions, visited_stations, seq, now, issued, loggedOut>>

\* POST /api/visited/:stationId
Mark(c, stationId, clientUid) ==
  LET req == [Request("mark", c) EXCEPT !.stationId = stationId] IN
  /\ Idle
  /\ IF ~requireAuth(req)
     THEN /\ last' = Unauthorized(req)
          /\ UNCHANGED <<visited_stations, seq>>
     ELSE LET uid == queryUserId(req, clientUid) IN
          /\ seq.row <= MaxRowId
          /\ visited_stations' = InsertOrReplace(uid, stationId)
          /\ seq' = [seq EXCEPT !.row = @ + 1]
          /\ last' = [req EXCEPT !.status = 200, !.queryUid = uid,
                        !.had = (ConflictingRows(uid, stationId) # {})]
  /\ UNCHANGED <<users, sessions, now, issued, loggedOut>>

\* DELETE /api/visited/:stationId
Unmark(c, stationId, clientUid) ==
  LET req == [Request("unmark", c) EXCEPT !.stationId = stationId] IN
  /\ Idle
  /\ IF ~requireAuth(req)
     THEN /\ last' = Unauthorized(req)
          /\ UNCHANGED visited_stations
     ELSE LET uid == queryUserId(req, clientUid)
              gone == DeleteOneRows(uid, stationId) IN
          /\ visited_stations' = visited_stations \ gone
          /\ last' = [req EXCEPT !.status = 200, !.queryUid = uid,
                        !.deleted = (Cardinality(gone) > 0)]
  /\ UNCHANGED <<users, sessions, seq, now, issued, loggedOut>>

\* DELETE /api/visited
ClearAll(c, clientUid) ==
  LET req == Request("clear", c) IN
  /\ Idle
  /\ IF ~requireAuth(req)
     THEN /\ last' = Unauthorized(req)
          /\ UNCHANGED visited_stations
     ELSE LET uid == queryUserId(req, clientUid)
              gone == DeleteAllRows(uid) IN
          /\ visited_stations' = visited_stations \ gone
          /\ last' = [req EXCEPT !.status = 200, !.queryUid = uid,
                        !.deletedCount = Cardinality(gone)]
  /\ UNCHANGED <<users, sessions, seq, now, issued, loggedOut>>

\* GET /api/leaderboard, the request of showLeaderboard: authMiddleware and
\* express.static pass it on, no route of server.js matches, and Express's
\* final handler answers 404 with an HTML page
Leaderboard(c) ==
  LET req == Request("leaderboard", c) IN
  /\ Idle
  /\ last' = Fail(req, 404, "Cannot GET /api/leaderboard")
  /\ UNCHANGED <<users, sessions, visited_stations, seq, now, issued, loggedOut>>

\* user ids a client can put in a path, query or body
ClientUids == {u.id : u \in users}

(* ------------------------------- app.js -------------------------------- *)
\* toggleStation and clearAll calls running at once
MaxInFlight == 2

\* the station catalog of the page
STATIONS == Stations

\* getComplexStations: A01 and B02 are one complex, every other station is
\* its own
getComplexStations(stationId) ==
  IF stationId \in {"A01", "B02"} THEN <<"A01", "B02">> ELSE <<stationId>>

\* typeof getComplexStations === 'function' ? getComplexStations(stationId)
\*                                           : [stationId]
complexStations(stationId) ==
  IF client.grouped THEN getComplexStations(stationId) ELSE <<stationId>>

\* Array.prototype.includes
includes(arr, x) == \E i \in 1..Len(arr) : arr[i] = x

\* Array.prototype.indexOf: the first position, counted from 0, or -1
indexOf(arr, x) ==
  IF includes(arr, x)
  THEN (CHOOSE i \in 1..Len(arr) :
          arr[i] = x /\ \A j \in 1..(i - 1) : arr[j] # x) - 1
  ELSE 0 - 1

\* arr.splice(start, 1): a negative start counts from the end of the array
splice(arr, start) ==
  LET at == IF start < 0 THEN Len(arr) + start + 1 ELSE start + 1 IN
  IF at < 1 \/ at > Len(arr) THEN arr
  ELSE SubSeq(arr, 1, at - 1) \o SubSeq(arr, at + 1, Len(arr))

\* the ids in an array
Ids(arr) == {arr[i] : i \in 1..Len(arr)}

\* how often an id occurs in an array
Count(arr, x) == Cardinality({i \in 1..Len(arr) : arr[i] = x})

\* isVisited(stationId), on a value of this.visitedStations
isVisited(stationId, mirror) == includes(mirror, stationId)

\* updateMarker(stationId): the marker is filled iff the station is visited
updateMarker(markers, stationId, mirror) ==
  IF isVisited(stationId, mirror) THEN markers \cup {stationId}
  ELSE markers \ {stationId}

\* complexStations.forEach(id => this.updateMarker(id))
RECURSIVE updateMarkers(_, _, _)
updateMarkers(markers, members, mirror) ==
  IF members = <<>> THEN markers
  ELSE updateMarkers(updateMarker(markers, Head(members), mirror),
                     Tail(members), mirror)

\* updateAllMarkers(): every marker is updated
updateAllMarkers(mirror) == {s \in STATIONS : isVisited(s, mirror)}

\* String.prototype.split(' ')
RECURSIVE split(_)
split(text) ==
  LET cut == {i \in 1..Len(text) : text[i] = SPACE} IN
  IF cut = {} THEN <<text>>
  ELSE LET i == CHOOSE i \in cut : \A j \in cut : i <= j
       IN <<SubSeq(text, 1, i - 1)>> \o split(SubSeq(text, i + 1, Len(text)))

\* getFilteredStations()
getFilteredStations(stations, line) ==
  IF line = ALL THEN stations
  ELSE SelectSeq(stations, LAMBDA s : includes(split(s.lines), line))

\* faulty variant: every line is laid out north to south
getStationOrder_LatOnly(station, line) == 0 - station.lat

\* getStationOrder(station): L, G, M and S run west to east, the others
\* north to south
getStationOrder(station, line) ==
  IF line \in {<<76>>, <<71>>, <<77>>} THEN station.lon
  ELSE IF line = <<83>> THEN station.lon
  ELSE 0 - station.lat

\* a.localeCompare(b) on texts of lower-case letters: negative, zero or
\* positive
localeCompare(a, b) ==
  IF a = b THEN 0 ELSE IF TextLess(a, b) THEN 0 - 1 ELSE 1

\* Array.prototype.sort(compare), which is stable: each element goes in front
\* of the first one it compares below
Sort(arr, compare(_, _)) ==
  LET insert(sorted, x) ==
        LET p == CHOOSE p \in 1..(Len(sorted) + 1) :
                   /\ p = Len(sorted) + 1 \/ compare(x, sorted[p]) < 0
                   /\ \A q \in 1..(p - 1) : ~(compare(x, sorted[q]) < 0)
        IN SubSeq(sorted, 1, p - 1) \o <<x>> \o SubSeq(sorted, p, Len(sorted))
      upTo[k \in 0..Len(arr)] ==
        IF k = 0 THEN <<>> ELSE insert(upTo[k - 1], arr[k])
  IN upTo[Len(arr)]

\* the text of a list item: nameSpan and lineSpan, `(${station.lines})`
ItemText(station) == station.name \o <<40>> \o station.lines \o <<41>>

\* renderStationList(): the filtered stations, sorted, one item each, every
\* item displayed
renderStationList(stations, line) ==
  LET filtered == getFilteredStations(stations, line)
      sorted == IF line = ALL
                THEN Sort(filtered, LAMBDA a, b : localeCompare(a.name, b.name))
                ELSE Sort(filtered, LAMBDA a, b : getStationOrder(a, line)
                                                   - getStationOrder(b, line))
  IN [i \in 1..Len(sorted) |->
        [id |-> sorted[i].id, text |-> ItemText(sorted[i]), shown |-> TRUE]]

\* the checkboxes after createStationListItem or updateStationList() with
\* the filter given: checkbox.checked = isVisited(id), for the filtered
\* stations
checked(stations, line, mirror) ==
  LET filtered == getFilteredStations(stations, line) IN
  {filtered[i].id : i \in {j \in 1..Len(filtered) :
                             isVisited(filtered[j].id, mirror)}}

\* updateStationList()
updateStationList(mirror) ==
  checked(client.stations, client.currentLineFilter, mirror)

\* getComplexId: the complex of a station, named after its first member
getComplexId(stationId) == Head(getComplexStations(stationId))

\* updateStats(): the complexes of the filtered stations, and of those of
\* them that are visited
updateStats(stations, line, mirror) ==
  LET filtered == getFilteredStations(stations, line)
      complex(s) == IF client.grouped THEN getComplexId(s.id) ELSE s.id
  IN [visited |-> Cardinality({complex(filtered[i]) :
                     i \in {j \in 1..Len(filtered) :
                              isVisited(filtered[j].id, mirror)}}),
      total |-> Cardinality({complex(filtered[i]) : i \in 1..Len(filtered)})]

\* String.prototype.includes
Contains(text, part) ==
  \E i \in 0..(Len(text) - Len(part)) : SubSeq(text, i + 1, i + Len(part)) = part

\* the store holds a mark of the station for the user
OnServer(userId, stationId) ==
  \E r \in visited_stations : r.user_id = userId /\ r.station_id = stationId

\* faulty variant: a call is issued for every member
NeedsCall_Always(unmark, id, mirror) == TRUE

\* the loop's test before a fetch: index > -1 when unmarking,
\* !this.visitedStations.includes(id) when marking
NeedsCall(unmark, id, mirror) ==
  IF unmark THEN indexOf(mirror, id) > 0 - 1 ELSE ~includes(mirror, id)

\* the position of the next member after position i that needs a call, or 0
RECURSIVE NextMember(_, _, _, _)
NextMember(members, i, unmark, mirror) ==
  IF i >= Len(members) THEN 0
  ELSE IF NeedsCall(unmark, members[i + 1], mirror) THEN i + 1
  ELSE NextMember(members, i + 1, unmark, mirror)

\* toggleStation runs on from member i to its next await fetch(...), or to
\* its end (the markers, the list and the statistics are updated)
Advance(f, mirror) ==
  LET members == complexStations(f.station)
      n == NextMember(members, f.i, f.unmark, mirror) IN
  IF n = 0 THEN [f EXCEPT !.phase = "done"]
  ELSE [f EXCEPT !.i = n, !.phase = "sent", !.calls = Append(@, members[n])]

\* a toggleStation call that has returned
Finished(f) == f.phase \in {"done", "caught"}

\* no toggleStation call has just returned
Quiet == \A t \in 1..Len(toggles) : ~Finished(toggles[t])

\* the mirror holds the member once when the store holds its mark, and not at
\* all otherwise
Agrees(stationId) ==
  Count(visitedStations, stationId) =
    IF OnServer(client.user.id, stationId) THEN 1 ELSE 0

\* init(): checkAuth() fetches auth/me
checkAuth ==
  /\ client.page = "boot"
  /\ AuthMe(client.session_id)
  /\ client' = IF last'.status = 200
               THEN [client EXCEPT !.page = "loading", !.user = last'.userOut]
               ELSE [client EXCEPT !.page = "auth"]
  /\ UNCHANGED <<visitedStations, toggles>>

\* handleAuth(): the login form is submitted with the account's credentials
handleAuth ==
  /\ client.page = "auth"
  /\ Login(Str(kartikye), Str(pin4569))
  /\ client' = [client EXCEPT !.page = "loading", !.user = last'.userOut,
                              !.session_id = last'.setCookie]
  /\ UNCHANGED <<visitedStations, toggles>>

\* loadVisitedStations(), then initMap(), the renderers and
\* attachEventListeners(). L.map (Leaflet, not part of the program) is given a
\* container that holds a map already when initMap is called again: it
\* returns, or it throws and the catch of handleAuth shows its error
loadVisitedStations ==
  /\ client.page = "loading"
  /\ \E k \in ClientUids : ListVisited(client.session_id, k)
  /\ visitedStations' = IF last'.status = 200 THEN last'.list ELSE <<>>
  /\ \E thrown \in IF client.inits > 0 THEN BOOLEAN ELSE {FALSE} :
       client' =
         IF thrown
         THEN [client EXCEPT !.page = "app", !.inits = @ + 1,
                             !.ok = @ /\ last'.status = 200,
                             !.error = "Network error. Please try again."]
         ELSE [client EXCEPT !.page = "app", !.inits = @ + 1,
                             !.listeners = @ + 1,
                             !.markers = updateAllMarkers(visitedStations'),
                             !.list = renderStationList(client.stations,
                                                        client.currentLineFilter),
                             !.checkboxes = updateStationList(visitedStations'),
                             !.stats = updateStats(client.stations,
                                                   client.currentLineFilter,
                                                   visitedStations'),
                             !.ok = @ /\ last'.status = 200]
  /\ UNCHANGED toggles

\* the popup of a marker nobody has clicked since its toggle began
NoPopup == ""

\* <em>${this.isVisited(station.id) ? 'Visited' : 'Not visited'}</em>
PopupText(stationId, mirror) ==
  IF isVisited(stationId, mirror) THEN "Visited" ELSE "Not visited"

\* toggleStation(stationId), up to its first fetch (the station itself always
\* needs a call, so the first fetch is always reached); popup is what the
\* caller writes into the marker's popup when the call has returned its
\* promise
toggleStationThen(stationId, popup) ==
  LET isCurrentlyVisited == includes(visitedStations, stationId)
      members == complexStations(stationId)
      f == [station |-> stationId, unmark |-> isCurrentlyVisited, i |-> 0,
            phase |-> "run", calls |-> <<>>, okIds |-> {},
            need |-> {members[i] : i \in {j \in 1..Len(members) :
                        includes(visitedStations, members[j]) = isCurrentlyVisited}},
            alone |-> (toggles = <<>>),
            agreed |-> \A i \in 1..Len(members) : Agrees(members[i]),
            clean |-> TRUE, popup |-> popup]
  IN /\ Idle
     /\ client.page = "app"
     /\ Quiet
     /\ Len(toggles) < MaxInFlight
     /\ toggles' = Append([t \in 1..Len(toggles) |->
                            [toggles[t] EXCEPT !.alone = FALSE]],
                          Advance(f, visitedStations))
     /\ UNCHANGED <<users, sessions, visited_stations, seq, now, issued,
                    loggedOut, last, visitedStations>>

\* a caller that leaves the popups alone
toggleStation(stationId) == toggleStationThen(stationId, NoPopup)

\* marker.on('click', ...): toggleStation(station.id), then setPopupContent
\* with isVisited(station.id) as it is when toggleStation has reached its
\* first await
click(stationId) ==
  /\ toggleStationThen(stationId, PopupText(stationId, visitedStations))
  /\ UNCHANGED client

\* checkbox 'change': the browser has flipped the checkbox of an item that
\* is displayed, then toggleStation(station.id)
change(stationId) ==
  /\ \E i \in 1..Len(client.list) :
       client.list[i].id = stationId /\ client.list[i].shown
  /\ toggleStation(stationId)
  /\ client' = [client EXCEPT !.checkboxes =
                   IF stationId \in @ THEN @ \ {stationId} ELSE @ \cup {stationId}]

\* renderLineFilter(): a button for 'all' and one for each line of the catalog
lineButtons ==
  {ALL} \cup UNION {{split(client.stations[i].lines)[j] :
                       j \in 1..Len(split(client.stations[i].lines))} :
                      i \in 1..Len(client.stations)}

\* setLineFilter(line): a click on a line button; the list is rendered anew
\* and the numbers are counted anew
setLineFilter(line) ==
  /\ Idle
  /\ Quiet
  /\ client.page = "app"
  /\ client.listeners > 0
  /\ client' = [client EXCEPT
       !.currentLineFilter = line,
       !.list = renderStationList(client.stations, line),
       !.checkboxes = checked(client.stations, line, visitedStations),
       !.stats = updateStats(client.stations, line, visitedStations)]
  /\ UNCHANGED <<users, sessions, visited_stations, seq, now, issued, loggedOut,
                 last, visitedStations, toggles>>

\* the texts typed into the search box
Queries == {<<>>, <<97>>, <<76>>}

\* the 'input' listener of search-box: an item is displayed iff its text, in
\* lower case, includes the content of the box, in lower case
input(query) ==
  /\ Idle
  /\ Quiet
  /\ client.page = "app"
  /\ client.listeners > 0
  /\ client' = [client EXCEPT
       !.query = query,
       !.list = [i \in 1..Len(client.list) |->
                   [client.list[i] EXCEPT !.shown =
                      Contains(ToLowerCase(client.list[i].text),
                               ToLowerCase(query))]]]
  /\ UNCHANGED <<users, sessions, visited_stations, seq, now, issued, loggedOut,
                 last, visitedStations, toggles>>

\* the station field of a clearAll call: DELETE api/visited names no station
NoStation == ""

\* clearAll(), confirmed, up to its fetch
clearAll ==
  LET f == [station |-> NoStation, unmark |-> TRUE, i |-> 0,
            phase |-> "sent", calls |-> <<>>, okIds |-> {}, need |-> {},
            alone |-> FALSE, agreed |-> FALSE, clean |-> TRUE,
            popup |-> NoPopup]
  IN /\ Idle
     /\ client.page = "app"
     /\ Quiet
     /\ Len(toggles) < MaxInFlight
     /\ toggles' = Append([t \in 1..Len(toggles) |->
                            [toggles[t] EXCEPT !.alone = FALSE]], f)
     /\ UNCHANGED <<users, sessions, visited_stations, seq, now, issued,
                    loggedOut, last, client, visitedStations>>

\* the server handles the request a clearAll call awaits
ServeClear(t) ==
  LET f == toggles[t] IN
  /\ Quiet
  /\ f.station = NoStation
  /\ f.phase = "sent"
  /\ \E k \in ClientUids : ClearAll(client.session_id, k)
  /\ toggles' = [toggles EXCEPT ![t].phase =
                   IF last'.status = 200 THEN "ok" ELSE "failed"]
  /\ client' = [client EXCEPT !.ok = @ /\ last'.status = 200]
  /\ UNCHANGED visitedStations

\* clearAll resumes after await fetch(...): when response.ok the mirror is
\* emptied and markers, list and statistics are updated
ResumeClear(t) ==
  LET f == toggles[t] IN
  /\ Idle
  /\ Quiet
  /\ f.station = NoStation
  /\ f.phase \in {"ok", "failed", "threw"}
  /\ visitedStations' = IF f.phase = "ok" THEN <<>> ELSE visitedStations
  /\ client' = IF f.phase = "ok"
               THEN [client EXCEPT !.markers = updateAllMarkers(<<>>),
                                   !.checkboxes = updateStationList(<<>>),
                                   !.stats = updateStats(client.stations,
                                               client.currentLineFilter, <<>>)]
               ELSE client
  /\ toggles' = [toggles EXCEPT ![t].phase =
                   IF f.phase = "threw" THEN "caught" ELSE "done"]
  /\ UNCHANGED <<users, sessions, visited_stations, seq, now, issued,
                 loggedOut, last>>

\* the server handles the request a toggleStation call awaits
Serve(t) ==
  LET f == toggles[t]
      id == complexStations(f.station)[f.i] IN
  /\ Quiet
  /\ f.station # NoStation
  /\ f.phase = "sent"
  /\ \E k \in ClientUids :
       IF f.unmark THEN Unmark(client.session_id, id, k)
       ELSE Mark(client.session_id, id, k)
  /\ toggles' = [toggles EXCEPT ![t].phase =
                   IF last'.status = 200 THEN "ok" ELSE "failed"]
  /\ client' = [client EXCEPT !.ok = @ /\ last'.status = 200]
  /\ UNCHANGED visitedStations

\* the request or its response is lost: fetch rejects
Drop(t) ==
  /\ Idle
  /\ Quiet
  /\ toggles[t].phase \in {"sent", "ok", "failed"}
  /\ toggles' = [toggles EXCEPT ![t].phase = "threw"]
  /\ client' = [client EXCEPT !.ok = FALSE]
  /\ UNCHANGED <<users, sessions, visited_stations, seq, now, issued,
                 loggedOut, last, visitedStations>>

\* response.ok
ResponseOk(phase) == phase = "ok"

\* toggleStation resumes after await fetch(...): the mirror is updated when
\* response.ok, and the loop runs on to the next fetch or to the update of
\* markers and list; a rejected fetch ends the call in catch
Resume(t) ==
  LET f == toggles[t]
      id == complexStations(f.station)[f.i]
      mirror == IF ~ResponseOk(f.phase) THEN visitedStations
                ELSE IF f.unmark
                  THEN splice(visitedStations, indexOf(visitedStations, id))
                ELSE Append(visitedStations, id)
      changed == (Ids(visitedStations) \ Ids(mirror))
                   \cup (Ids(mirror) \ Ids(visitedStations))
      g == [f EXCEPT !.okIds = IF f.phase = "ok" THEN @ \cup {id} ELSE @,
                     !.clean = /\ @
                               /\ f.phase = "ok" =>
                                    /\ changed \subseteq {id}
                                    /\ includes(mirror, id) = ~f.unmark
                               /\ f.phase # "ok" => mirror = visitedStations]
      h == IF f.phase = "threw" THEN [g EXCEPT !.phase = "caught"]
           ELSE Advance(g, mirror)
  IN /\ Idle
     /\ Quiet
     /\ f.station # NoStation
     /\ f.phase \in {"ok", "failed", "threw"}
     /\ visitedStations' = IF f.phase = "threw" THEN visitedStations ELSE mirror
     /\ toggles' = [toggles EXCEPT ![t] = h]
     /\ client' = IF h.phase = "done"
                  THEN [client EXCEPT
                          !.markers = updateMarkers(@, complexStations(f.station),
                                                    mirror),
                          !.checkboxes = updateStationList(mirror),
                          !.stats = updateStats(client.stations,
                                                client.currentLineFilter, mirror)]
                  ELSE client
     /\ UNCHANGED <<users, sessions, visited_stations, seq, now, issued,
                    loggedOut, last>>

\* the toggleStation calls that have returned are gone
Settle ==
  /\ Idle
  /\ ~Quiet
  /\ toggles' = SelectSeq(toggles, LAMBDA f : ~Finished(f))
  /\ UNCHANGED <<users, sessions, visited_stations, seq, now, issued,
                 loggedOut, last, client, visitedStations>>

\* a page is opened in a browser without a cookie
InitClient ==
  /\ FreshStore
  /\ client \in {NewPage(g) : g \in BOOLEAN}
  /\ visitedStations = <<>>
  /\ toggles = <<>>

(* ------------------- app.js: the authentication modal ----------------- *)
\* handleAuth calls running at once
MaxSubmits == 2

\* what the user types into the form: the default account with its PIN and
\* with a wrong PIN, and a new handle
AuthForms ==
  {<<Str(kartikye), Str(pin4569)>>, <<Str(kartikye), Str(pin1234)>>,
   <<Str(bob), Str(pin1234)>>}

\* a sequence without its k-th element
Without(q, k) == SubSeq(q, 1, k - 1) \o SubSeq(q, k + 1, Len(q))

\* init(): checkAuth() catches a rejected fetch and returns false
checkAuthError ==
  /\ Idle
  /\ client.page = "boot"
  /\ client' = [client EXCEPT !.page = "auth"]
  /\ UNCHANGED <<users, sessions, visited_stations, seq, now, issued, loggedOut,
                 last, visitedStations, toggles>>

\* the form's 'submit' listener: handleAuth() up to its fetch; the modal is
\* shown, so the form can be submitted, until a call has shown the app
submit(isLoginMode, username, pin) ==
  /\ Idle
  /\ client.page = "auth"
  /\ Len(client.auths) < MaxSubmits
  /\ client' = [client EXCEPT
       !.error = "",
       !.auths = Append(@, [isLoginMode |-> isLoginMode, username |-> username,
                            pin |-> pin, phase |-> "sent", error |-> "",
                            user |-> NoUser, cookie |-> NoCookie])]
  /\ UNCHANGED <<users, sessions, visited_stations, seq, now, issued, loggedOut,
                 last, visitedStations, toggles>>

\* the server handles the request a handleAuth call awaits
ServeAuth(k) ==
  LET f == client.auths[k] IN
  /\ f.phase = "sent"
  /\ IF f.isLoginMode THEN Login(f.username, f.pin)
     ELSE Register(f.username, f.pin)
  /\ client' = [client EXCEPT !.auths[k] =
       IF last'.status = 200
       THEN [f EXCEPT !.phase = "ok", !.user = last'.userOut,
                      !.cookie = last'.setCookie]
       ELSE [f EXCEPT !.phase = "failed", !.error = last'.error]]
  /\ UNCHANGED <<visitedStations, toggles>>

\* the request or its response is lost: fetch rejects
DropAuth(k) ==
  /\ Idle
  /\ client.auths[k].phase \in {"sent", "ok", "failed"}
  /\ client' = [client EXCEPT !.auths[k].phase = "threw"]
  /\ UNCHANGED <<users, sessions, visited_stations, seq, now, issued, loggedOut,
                 last, visitedStations, toggles>>

\* handleAuth resumes after await fetch(...): response.ok sets this.user and
\* shows the app (loadVisitedStations comes next); otherwise the error of the
\* response, or 'Network error. Please try again.' in catch, is shown
ResumeAuth(k) ==
  LET f == client.auths[k]
      rest == Without(client.auths, k) IN
  /\ Idle
  /\ f.phase \in {"ok", "failed", "threw"}
  /\ client' =
       IF f.phase = "ok"
         THEN [client EXCEPT !.user = f.user, !.session_id = f.cookie,
                             !.page = "loading", !.auths = rest]
       ELSE IF f.phase = "failed"
         THEN [client EXCEPT !.error = f.error, !.auths = rest]
       ELSE [client EXCEPT !.error = "Network error. Please try again.",
                           !.auths = rest]
  /\ UNCHANGED <<users, sessions, visited_stations, seq, now, issued, loggedOut,
                 last, visitedStations, toggles>>

\* handleLogout(): POST auth/logout, then window.location.reload(): the page
\* starts again, with the cookie cleared
handleLogout ==
  /\ client.page \in {"loading", "app"}
  /\ Logout(client.session_id)
  /\ client' = [NewPage(client.grouped) EXCEPT !.stations = client.stations]
  /\ visitedStations' = <<>>
  /\ toggles' = <<>>

\* the page from its start to the app and back, and the server
NextAuth ==
  \/ Receive /\ UNCHANGED <<clientVars, startup>>
  \/ checkAuth /\ UNCHANGED startup
  \/ checkAuthError /\ UNCHANGED startup
  \/ \E m \in BOOLEAN, b \in AuthForms : submit(m, b[1], b[2]) /\ UNCHANGED startup
  \/ \E k \in 1..Len(client.auths) : ServeAuth(k) /\ UNCHANGED startup
  \/ \E k \in 1..Len(client.auths) : DropAuth(k) /\ UNCHANGED startup
  \/ \E k \in 1..Len(client.auths) : ResumeAuth(k) /\ UNCHANGED startup
  \/ loadVisitedStations /\ UNCHANGED startup
  \/ handleLogout /\ UNCHANGED startup

SpecAuth == InitClient /\ [][NextAuth]_vars

\* the session of the page expires while the app is open: the clock moves past
\* the expiry of a session issued at the start
Expire ==
  /\ client.page = "app"
  /\ Tick
  /\ now'[1] > SESSION_MAX_AGE_DAYS
  /\ UNCHANGED clientVars

\* the page with its toggles started in the list, by its checkboxes, and the
\* server
NextToggles ==
  \/ Expire /\ UNCHANGED startup
  \/ Receive /\ UNCHANGED <<clientVars, startup>>
  \/ checkAuth /\ UNCHANGED startup
  \/ handleAuth /\ UNCHANGED startup
  \/ loadVisitedStations /\ UNCHANGED startup
  \/ \E s \in STATIONS : change(s) /\ UNCHANGED startup
  \/ \E t \in 1..Len(toggles) : Serve(t) /\ UNCHANGED startup
  \/ \E t \in 1..Len(toggles) : Drop(t) /\ UNCHANGED startup
  \/ \E t \in 1..Len(toggles) : Resume(t) /\ UNCHANGED startup
  \/ Settle /\ UNCHANGED startup

SpecToggles == InitClient /\ [][NextToggles]_vars

\* the same page with its toggles started on the map, by clicks on markers
NextMarkers ==
  \/ Receive /\ UNCHANGED <<clientVars, startup>>
  \/ checkAuth /\ UNCHANGED startup
  \/ handleAuth /\ UNCHANGED startup
  \/ loadVisitedStations /\ UNCHANGED startup
  \/ \E s \in STATIONS : click(s) /\ UNCHANGED startup
  \/ \E t \in 1..Len(toggles) : Serve(t) /\ UNCHANGED startup
  \/ \E t \in 1..Len(toggles) : Drop(t) /\ UNCHANGED startup
  \/ \E t \in 1..Len(toggles) : Resume(t) /\ UNCHANGED startup
  \/ Settle /\ UNCHANGED startup

SpecMarkers == InitClient /\ [][NextMarkers]_vars

\* the same, with the clear-all button
NextClient ==
  \/ NextToggles
  \/ clearAll /\ UNCHANGED startup
  \/ \E t \in 1..Len(toggles) : ServeClear(t) /\ UNCHANGED startup
  \/ \E t \in 1..Len(toggles) : ResumeClear(t) /\ UNCHANGED startup

SpecClient == InitClient /\ [][NextClient]_vars

\* the requests of any client of the server
Next ==
  \/ Tick /\ UNCHANGED <<clientVars, startup>>
  \/ Receive /\ UNCHANGED <<clientVars, startup>>
  \/ \E c \in Cookies : AuthMe(c) /\ UNCHANGED <<clientVars, startup>>
  \/ \E b \in RegisterBodies : Register(b[1], b[2]) /\ UNCHANGED <<clientVars, startup>>
  \/ \E b \in LoginBodies : Login(b[1], b[2]) /\ UNCHANGED <<clientVars, startup>>
  \/ \E u \in CheckNames : Check(u) /\ UNCHANGED <<clientVars, startup>>
  \/ \E c \in Cookies : Logout(c) /\ UNCHANGED <<clientVars, startup>>
  \/ \E c \in Cookies, k \in ClientUids : ListVisited(c, k) /\ UNCHANGED <<clientVars, startup>>
  \/ \E c \in Cookies, s \in Stations, k \in ClientUids :
       Mark(c, s, k) /\ UNCHANGED <<clientVars, startup>>
  \/ \E c \in Cookies, s \in Stations, k \in ClientUids :
       Unmark(c, s, k) /\ UNCHANGED <<clientVars, startup>>
  \/ \E c \in Cookies, k \in ClientUids : ClearAll(c, k) /\ UNCHANGED <<clientVars, startup>>
  \/ \E c \in Cookies : Leaderboard(c) /\ UNCHANGED <<clientVars, startup>>

Spec == Init /\ [][Next]_vars

\* the states Math.random can be in when the server starts
Seeds == 1..(Modulus - 1)

\* a server whose Math.random starts in any state
InitRandom == (\E seed \in Seeds : FreshStoreSeeded(seed)) /\ NoPage

\* the well-formed request bodies
SessionBodies == {b \in LoginBodies : b[1].type = "string" /\ PinPattern(b[2])
                                        /\ ~BadLength(b[1])}

\* the requests that make createSession run
NextRandom ==
  \/ Receive /\ UNCHANGED <<clientVars, startup>>
  \/ \E b \in SessionBodies \cap RegisterBodies :
       Register(b[1], b[2]) /\ UNCHANGED <<clientVars, startup>>
  \/ \E b \in SessionBodies : Login(b[1], b[2]) /\ UNCHANGED <<clientVars, startup>>

SpecRandom == InitRandom /\ [][NextRandom]_vars

\* the server started on a legacy store
SpecMigrated == InitMigrated /\ [][Next]_vars

(* ------------------------- app.js: the station list ------------------- *)
\* stations of a catalog
MaxCatalog == 3

\* the ids of a catalog's stations
StationIds == <<"A01", "B02", "C03", "D04">>

\* the catalogs the page can be loaded with: names "a" and "b", lines "A",
\* "L" and "A S", two latitudes and two longitudes
Catalogs ==
  LET Features == [name : {<<97>>, <<98>>},
                   lines : {<<65>>, <<76>>, <<65, 32, 83>>},
                   lat : 1..2, lon : 1..2]
  IN {[i \in 1..MaxCatalog |->
         Station(StationIds[i], f[i].name, f[i].lines, f[i].lat, f[i].lon)] :
        f \in [1..MaxCatalog -> Features]}

\* a page is opened with one of the catalogs
InitList ==
  /\ FreshStore
  /\ client \in {[NewPage(FALSE) EXCEPT !.stations = c] : c \in Catalogs}
  /\ visitedStations = <<>>
  /\ toggles = <<>>

\* the page up to its app, then its line buttons and its search box
NextList ==
  \/ Receive /\ UNCHANGED <<clientVars, startup>>
  \/ checkAuth /\ UNCHANGED startup
  \/ handleAuth /\ UNCHANGED startup
  \/ loadVisitedStations /\ UNCHANGED startup
  \/ \E line \in lineButtons : setLineFilter(line) /\ UNCHANGED startup
  \/ \E query \in Queries : input(query) /\ UNCHANGED startup

SpecList == InitList /\ [][NextList]_vars

\* a page is opened with the catalog of the two stations and their complex
InitStats ==
  /\ FreshStore
  /\ client = NewPage(TRUE)
  /\ visitedStations = <<>>
  /\ toggles = <<>>

\* that page: its list, its clear-all button and its line buttons, and the
\* server
NextStats ==
  \/ Receive /\ UNCHANGED <<clientVars, startup>>
  \/ checkAuth /\ UNCHANGED startup
  \/ handleAuth /\ UNCHANGED startup
  \/ loadVisitedStations /\ UNCHANGED startup
  \/ \E s \in STATIONS : change(s) /\ UNCHANGED startup
  \/ \E t \in 1..Len(toggles) : Serve(t) /\ UNCHANGED startup
  \/ \E t \in 1..Len(toggles) : Drop(t) /\ UNCHANGED startup
  \/ \E t \in 1..Len(toggles) : Resume(t) /\ UNCHANGED startup
  \/ Settle /\ UNCHANGED startup
  \/ clearAll /\ UNCHANGED startup
  \/ \E t \in 1..Len(toggles) : ServeClear(t) /\ UNCHANGED startup
  \/ \E t \in 1..Len(toggles) : ResumeClear(t) /\ UNCHANGED startup
  \/ \E line \in lineButtons : setLineFilter(line) /\ UNCHANGED startup

SpecStats == InitStats /\ [][NextStats]_vars

(* ------------------------ lib/db.js: initSchema ------------------------ *)
\* startups of the server process on one store file
MaxRuns == 2

\* rows of the legacy table of a store file the server is started on
MaxStartRows == 2

\* lib/db.js holds initSchema twice (lines 13-96 and 109-168)
Copies == {1, 2}

\* the rows of users a store file can hold when the server starts
Accounts ==
  {{}, {[id |-> 1, username |-> kartikye, pin |-> pin4569]},
       {[id |-> 1, username |-> bob, pin |-> pin1234]}}

\* the store files the server can be started on: no tables, a legacy
\* visited_stations table (users and sessions absent or present), the current
\* schema
StartingStores ==
  {NoTables}
    \cup {Store(FALSE, FALSE, "legacy", d, {}) : d \in LegacyTablesOf(MaxStartRows)}
    \cup {Store(TRUE, TRUE, "legacy", d, a) :
            d \in LegacyTablesOf(MaxStartRows), a \in Accounts}
    \cup {Store(TRUE, TRUE, "current", <<>>, a) : a \in Accounts}

\* the server process is not running yet
InitStartup ==
  \E copy \in Copies, origin \in StartingStores :
    /\ users = origin.accounts
    /\ sessions = {}
    /\ visited_stations = {}
    /\ seq = [user |-> Cardinality(origin.accounts) + 1, token |-> 1,
              row |-> 1, random |-> 1]
    /\ now = StartupInstant
    /\ issued = {}
    /\ loggedOut = {}
    /\ last = BaseLast
    /\ startup = Process(copy, origin)
    /\ NoPage

\* what no statement of initSchema touches
Untouched == <<sessions, now, issued, loggedOut, last, clientVars>>

\* node server.js: require('./lib/db') runs initSchema()
Start ==
  /\ startup.pc \in {"off", "failed"}
  /\ startup.runs < MaxRuns
  /\ startup' = [startup EXCEPT !.pc = "createUsers", !.runs = @ + 1,
                                !.error = "", !.found = startup.visited]
  /\ UNCHANGED <<users, visited_stations, seq, Untouched>>

\* the process stops: the locals are lost, the store file stays
Stop ==
  /\ startup.pc \notin {"off", "failed"}
  /\ startup' = [startup EXCEPT !.pc = "off", !.oldData = <<>>,
                                !.kartikyeId = 0, !.i = 0,
                                !.rerun = (startup.pc = "done")]
  /\ UNCHANGED <<users, visited_stations, seq, Untouched>>

\* CREATE TABLE IF NOT EXISTS users
CreateUsers ==
  /\ startup.pc = "createUsers"
  /\ startup' = [startup EXCEPT !.pc = "createSessions", !.users = TRUE]
  /\ UNCHANGED <<users, visited_stations, seq, Untouched>>

\* CREATE TABLE IF NOT EXISTS sessions
CreateSessions ==
  /\ startup.pc = "createSessions"
  /\ startup' = [startup EXCEPT !.pc = "tableInfo", !.sessions = TRUE]
  /\ UNCHANGED <<users, visited_stations, seq, Untouched>>

\* PRAGMA table_info(visited_stations) and the branch taken on it: the first
\* copy tells a missing table (tableInfo.length === 0) from a legacy one, the
\* second only asks for the user_id column, which a missing table lacks too
TableInfo ==
  /\ startup.pc = "tableInfo"
  /\ LET hasUserId == startup.visited = "current"
     IN startup' = [startup EXCEPT !.pc =
          IF startup.copy = 1 /\ startup.visited = "absent" THEN "createVisited"
          ELSE IF ~hasUserId THEN "selectOld"
          ELSE "done"]
  /\ UNCHANGED <<users, visited_stations, seq, Untouched>>

\* fresh install: CREATE TABLE visited_stations
CreateVisited ==
  /\ startup.pc = "createVisited"
  /\ startup' = [startup EXCEPT !.pc = "defaultUser", !.visited = "current"]
  /\ visited_stations' = {}
  /\ seq' = [seq EXCEPT !.row = 1]
  /\ UNCHANGED <<users, Untouched>>

\* fresh install: SELECT id FROM users WHERE username = 'kartikye', and the
\* INSERT when there is none
DefaultUser ==
  /\ startup.pc = "defaultUser"
  /\ LET existing == {u \in users : u.username = kartikye}
     IN IF existing = {}
        THEN /\ users' = users \cup
                  {[id |-> seq.user, username |-> kartikye, pin |-> pin4569]}
             /\ seq' = [seq EXCEPT !.user = @ + 1]
        ELSE UNCHANGED <<users, seq>>
  /\ startup' = [startup EXCEPT !.pc = "done"]
  /\ UNCHANGED <<visited_stations, Untouched>>

\* migration: SELECT station_id, visited_at FROM visited_stations, which
\* throws when the table is missing
SelectOld ==
  /\ startup.pc = "selectOld"
  /\ startup' = IF startup.visited = "absent"
                THEN [startup EXCEPT !.pc = "failed",
                                     !.error = "no such table: visited_stations"]
                ELSE [startup EXCEPT !.pc = "drop", !.oldData = startup.legacy]
  /\ UNCHANGED <<users, visited_stations, seq, Untouched>>

\* migration: DROP TABLE visited_stations
DropTable ==
  /\ startup.pc = "drop"
  /\ startup' = [startup EXCEPT !.pc = "create", !.visited = "absent",
                                !.legacy = <<>>]
  /\ UNCHANGED <<users, visited_stations, seq, Untouched>>

\* migration: CREATE TABLE visited_stations with user_id
CreateTable ==
  /\ startup.pc = "create"
  /\ startup' = [startup EXCEPT !.pc = "insertUser", !.visited = "current"]
  /\ visited_stations' = {}
  /\ seq' = [seq EXCEPT !.row = 1]
  /\ UNCHANGED <<users, Untouched>>

\* migration: INSERT INTO users (username, pin) VALUES ('kartikye', '4569'),
\* which throws on the UNIQUE username; then oldData.length > 0
InsertUser ==
  /\ startup.pc = "insertUser"
  /\ IF \E u \in users : u.username = kartikye
     THEN /\ startup' = [startup EXCEPT !.pc = "failed",
                           !.error = "UNIQUE constraint failed: users.username"]
          /\ UNCHANGED <<users, seq>>
     ELSE /\ users' = users \cup
               {[id |-> seq.user, username |-> kartikye, pin |-> pin4569]}
          /\ seq' = [seq EXCEPT !.user = @ + 1]
          /\ startup' = [startup EXCEPT
               !.pc = IF Len(startup.oldData) > 0 THEN "reinsert" ELSE "done",
               !.kartikyeId = seq.user, !.i = 0]
  /\ UNCHANGED <<visited_stations, Untouched>>

\* migration: one turn of oldData.forEach:
\* insert.run(kartikyeId, row.station_id, row.visited_at || new Date().toISOString())
Reinsert ==
  /\ startup.pc = "reinsert"
  /\ LET row == startup.oldData[startup.i + 1]
     IN /\ visited_stations' = visited_stations \cup
             {[id |-> seq.row, user_id |-> startup.kartikyeId,
               station_id |-> row.station_id,
               visited_at |-> IF row.visited_at = Null THEN ToISOString(now)
                              ELSE row.visited_at]}
        /\ seq' = [seq EXCEPT !.row = @ + 1]
        /\ startup' = [startup EXCEPT
             !.pc = IF startup.i + 1 < Len(startup.oldData) THEN "reinsert"
                    ELSE "done",
             !.i = @ + 1]
  /\ UNCHANGED <<users, Untouched>>

\* the server process from one start of its store file to the next
NextStartup ==
  \/ Start
  \/ Stop
  \/ CreateUsers
  \/ CreateSessions
  \/ TableInfo
  \/ CreateVisited
  \/ DefaultUser
  \/ SelectOld
  \/ DropTable
  \/ CreateTable
  \/ InsertUser
  \/ Reinsert

SpecStartup == InitStartup /\ [][NextStartup]_vars

(* ------------------------------ properties ----------------------------- *)
ApiOps == {"list", "mark", "unmark", "clear"}

\* the marks of a user
RowsOf(userId) == {r \in visited_stations : r.user_id = userId}

\* the instant a session row expires
ExpiryInstant(s) == InstantOf(s.expires_at)

\* the cookie names a session row whose expiry lies in the past
Expired(c) == \E s \in sessions : s.id = c /\ Before(ExpiryInstant(s), now)

\* the cookie is absent, names no session row, or names an expired one
LacksSession(c) ==
  \/ c = NoCookie
  \/ ~\E s \in sessions : s.id = c
  \/ Expired(c)

\* a handle of 3 to 20 characters and a credential of 4 to 6 digits
WellFormed(username, pin) ==
  /\ username.type = "string" /\ pin.type = "string"
  /\ Len(username.chars) \in 3..20
  /\ Len(pin.chars) \in 4..6
  /\ \A i \in 1..Len(pin.chars) : pin.chars[i] \in 48..57

\* the lowercase form of the handle is the handle of an account
HandleKnown(username) ==
  /\ username.type = "string"
  /\ \E u \in users : u.username = ToLowerCase(username.chars)

\* C1: a request leaves the marks of every user other than the one its session
\* resolves to untouched (also when both have marked the same station); the
\* user id bound in a visited_stations query is the one the cookie resolves
\* to, and a list response holds exactly the requester's own stations.
C1_Isolation ==
  [][/\ \A v \in users :
          v.id # getUserFromSession(last'.cookie).id => RowsOf(v.id)' = RowsOf(v.id)
     /\ (last'.op \in ApiOps /\ last'.status = 200) =>
          /\ last'.queryUid = getUserFromSession(last'.cookie).id
          /\ last'.queryUid # NoUser.id
     /\ (last'.op = "list" /\ last'.status = 200) =>
          {last'.list[i] : i \in 1..Len(last'.list)} =
            {r.station_id : r \in RowsOf(getUserFromSession(last'.cookie).id)}
    ]_vars

\* two users hold a mark of the same station, and the later of the two marks
\* has just been made
C1_Witness ==
  /\ last.op = "mark" /\ last.status = 200
  /\ \E r \in visited_stations :
       r.user_id # last.user.id /\ r.station_id = last.stationId

\* C2: a /api/visited request without a resolvable session (no cookie,
\* unknown, expired or deleted token) is answered 401 and leaves
\* visited_stations alone.
C2_GateClaim ==
  [][(last'.op \in ApiOps /\ LacksSession(last'.cookie)) =>
       (last'.status = 401 /\ visited_stations' = visited_stations)]_vars

\* C3: a token resolves to a user iff its row exists and the current time is
\* before its expiry; past the expiry written by createSession it resolves to
\* nobody.
C3_ExpiryClaim ==
  \A s \in sessions :
    /\ Before(ExpiryInstant(s), now) => getUserFromSession(s.id) = NoUser
    /\ Before(now, ExpiryInstant(s)) => getUserFromSession(s.id) # NoUser

\* C4: the (user_id, station_id) pairs of visited_stations are pairwise
\* distinct; after a mark the user holds exactly one row of the station, and a
\* list response names each marked station exactly once.
C4_MarkOnce ==
  /\ \A r1, r2 \in visited_stations :
       (r1.user_id = r2.user_id /\ r1.station_id = r2.station_id) => r1 = r2
  /\ (last.op = "mark" /\ last.status = 200) =>
       Cardinality({r \in RowsOf(last.user.id) : r.station_id = last.stationId}) = 1
  /\ (last.op = "list" /\ last.status = 200) =>
       \A r \in RowsOf(last.user.id) :
         Cardinality({i \in 1..Len(last.list) : last.list[i] = r.station_id}) = 1

\* a station the user had already marked has been marked again
C4_Witness ==
  /\ last.op = "mark" /\ last.status = 200 /\ last.had
  /\ \E r \in RowsOf(last.user.id) : r.station_id = last.stationId

\* C5: registering a well-formed (handle, credential) whose lowercase handle
\* is free succeeds and creates the user; no step removes or alters a user;
\* a login with a handle and credential matching a user row succeeds and
\* returns that user's id.
C5_RegisterThenLogin ==
  [][/\ (/\ last'.op = "register"
         /\ WellFormed(last'.username, last'.pin)
         /\ ~HandleKnown(last'.username)) =>
          /\ last'.status = 200
          /\ \E u \in users' \ users :
               /\ u.username = ToLowerCase(last'.username.chars)
               /\ u.pin = last'.pin.chars
               /\ last'.userOut = [id |-> u.id, username |-> u.username]
     /\ users \subseteq users'
     /\ \A u \in users :
          (/\ last'.op = "login"
           /\ WellFormed(last'.username, last'.pin)
           /\ u.username = ToLowerCase(last'.username.chars)
           /\ u.pin = last'.pin.chars) =>
            (last'.status = 200 /\ last'.userOut.id = u.id)
    ]_vars

\* an account made by registration has logged in
C5_Witness ==
  /\ last.op = "login" /\ last.status = 200
  /\ last.userOut.username = bob

\* C6 as claimed: a registration whose lowercase handle is taken is answered
\* 400 'Username already taken' whatever the credential, and creates no user,
\* no session and no cookie.
C6_DuplicateClaim ==
  [][(last'.op = "register" /\ HandleKnown(last'.username)) =>
         /\ last'.status = 400 /\ last'.error = "Username already taken"
         /\ users' = users /\ sessions' = sessions
         /\ last'.setCookie = NoCookie
    ]_vars

\* C6 as amended: such a registration is answered 400, creates no user, no
\* session and no cookie; the message is 'Username already taken' when handle
\* and credential are well-formed, and a validation message otherwise.
C6_Duplicate ==
  [][(last'.op = "register" /\ HandleKnown(last'.username)) =>
         /\ last'.status = 400
         /\ WellFormed(last'.username, last'.pin) =>
              last'.error = "Username already taken"
         /\ ~WellFormed(last'.username, last'.pin) =>
              last'.error \in {"Username and PIN required",
                               "Username must be 3-20 characters",
                               "PIN must be 4-6 digits"}
         /\ users' = users /\ sessions' = sessions
         /\ last'.setCookie = NoCookie
    ]_vars

\* a registration of a taken handle has been rejected as taken
C6_Witness ==
  /\ last.op = "register" /\ last.known
  /\ last.error = "Username already taken"

\* C7: a login naming a handle and a credential that match no user row gets
\* one and the same response, 401 'Invalid username or PIN', whether or not
\* the handle exists; no session row is made and no cookie set.
C7_NoExistenceLeak ==
  [][(/\ last'.op = "login"
      /\ last'.username.type = "string" /\ last'.username.chars # <<>>
      /\ last'.pin.type = "string" /\ last'.pin.chars # <<>>
      /\ ~\E u \in users :
            /\ u.username = ToLowerCase(last'.username.chars)
            /\ u.pin = last'.pin.chars) =>
         /\ last'.status = 401 /\ last'.error = "Invalid username or PIN"
         /\ last'.userOut = NoUser /\ last'.setCookie = NoCookie
         /\ sessions' = sessions
    ]_vars

\* a login with an existing handle and a wrong credential has been refused
C7_Witness == last.op = "login" /\ last.status = 401 /\ last.known

\* C8: a token carried by a logout never resolves again and gets 401 from the
\* protected routes; every logout answers success, and one whose token names
\* no session row changes no row.
C8_Logout ==
  [][/\ \A t \in loggedOut' :
          /\ getUserFromSession(t)' = NoUser
          /\ (last'.op \in ApiOps /\ last'.cookie = t) => last'.status = 401
     /\ last'.op = "logout" =>
          /\ last'.status = 200 /\ last'.clearCookie
          /\ ~\E s \in sessions' : s.id = last'.cookie
          /\ (\E s \in sessions : s.id = last'.cookie) => last'.cookie \in loggedOut'
          /\ (~\E s \in sessions : s.id = last'.cookie) => sessions' = sessions
          /\ users' = users /\ visited_stations' = visited_stations
    ]_vars

\* a protected route has refused a token that was logged out
C8_Witness ==
  /\ last.op \in ApiOps /\ last.cookie \in loggedOut
  /\ last.status = 401

\* C9: a successful register or login sets a cookie whose token, until it
\* expires or is logged out, resolves to the user of that response, also for
\* GET /auth/me; every session row that resolves refers to exactly one user.
C9_SessionResolves ==
  /\ \A i \in issued :
       Before(now, <<i.at[1] + SESSION_MAX_AGE_DAYS, i.at[2]>>) =>
         /\ getUserFromSession(i.token) = i.user
         /\ (last.op = "me" /\ last.cookie = i.token) =>
              (last.status = 200 /\ last.userOut = i.user)
  /\ (last.op \in {"register", "login"} /\ last.status = 200) =>
       /\ last.setCookie # NoCookie
       /\ [token |-> last.setCookie, user |-> last.userOut, at |-> now] \in issued
  /\ \A s \in sessions :
       getUserFromSession(s.id) # NoUser =>
         Cardinality({u \in users : u.id = s.user_id}) = 1

\* GET /auth/me has answered for a token issued at an earlier instant, while
\* another account exists
C9_Witness ==
  /\ last.op = "me" /\ last.status = 200
  /\ \E i \in issued : i.token = last.cookie /\ Before(i.at, now)
  /\ Cardinality(users) > 1

\* C10: an unmark reports deleted:true iff the user had the station marked;
\* with deleted:false the table is unchanged; afterwards the user holds no
\* mark of the station.
C10_Unmark ==
  [][(last'.op = "unmark" /\ last'.status = 200) =>
       LET uid == getUserFromSession(last'.cookie).id
           sid == last'.stationId IN
       /\ last'.deleted <=> (\E r \in RowsOf(uid) : r.station_id = sid)
       /\ ~last'.deleted => visited_stations' = visited_stations
       /\ ~\E r \in visited_stations' : r.user_id = uid /\ r.station_id = sid
       /\ \A r \in visited_stations \ visited_stations' :
            r.user_id = uid /\ r.station_id = sid
    ]_vars

\* an unmark of a station that only another user had marked reported
\* deleted:false
C10_Witness ==
  /\ last.op = "unmark" /\ last.status = 200 /\ ~last.deleted
  /\ \E r \in visited_stations : r.station_id = last.stationId

\* the GET /api/visited responses the store allows for a user
ListResponses(userId) ==
  {[i \in 1..Len(f) |-> f[i].station_id] :
     f \in OrderByVisitedAt(SelectVisited(userId))}

\* no upper-case ASCII letter
IsLowerCase(cs) == \A i \in 1..Len(cs) : ~(cs[i] >= 65 /\ cs[i] <= 90)

\* the users tables that differ from users only in the credentials of the
\* accounts other than the one the handle names
OtherCredentials(username) ==
  {{[u EXCEPT !.pin = f[u]] : u \in users} :
     f \in {g \in [users -> {pin1234, pin4569}] :
              \A u \in users :
                u.username = ToLowerCase(username.chars) => g[u] = u.pin}}

\* C11: a clear-all removes every mark of the session's user and no other
\* row, and reports how many marks that user had; a list for a user without
\* marks is the empty list.
C11_ClearAll ==
  [][\A u \in users :
       getUserFromSession(last'.cookie).id = u.id =>
         /\ (last'.op = "clear" /\ last'.status = 200) =>
              /\ RowsOf(u.id)' = {}
              /\ visited_stations' = visited_stations \ RowsOf(u.id)
              /\ last'.deletedCount = Cardinality(RowsOf(u.id))
         /\ (last'.op = "list" /\ last'.status = 200 /\ RowsOf(u.id) = {}) =>
              last'.list = <<>>
    ]_vars

\* a clear-all has removed the two marks of one user and left the mark of
\* another
C11_Witness ==
  /\ last.op = "clear" /\ last.status = 200 /\ last.deletedCount = 2
  /\ \E r \in visited_stations : r.user_id # last.user.id

\* C12: marking a station the user has already marked leaves the responses
\* of GET /api/visited for that user (ids in order) as they were.
C12_RemarkClaim ==
  [][\A u \in users :
       (last'.op = "mark" /\ last'.status = 200 /\ last'.had
          /\ last'.queryUid = u.id) =>
         ListResponses(u.id)' = ListResponses(u.id)
    ]_vars

\* C13: a list response holds exactly the stations the user has marked, each
\* once, and a mark recorded at a strictly earlier instant precedes one
\* recorded later.
C13_OrderClaim ==
  (last.op = "list" /\ last.status = 200) =>
    LET rows == RowsOf(last.queryUid) IN
    /\ Len(last.list) = Cardinality(rows)
    /\ {last.list[i] : i \in 1..Len(last.list)} = {r.station_id : r \in rows}
    /\ \A i, j \in 1..Len(last.list) : \A ri, rj \in rows :
         (/\ ri.station_id = last.list[i] /\ rj.station_id = last.list[j]
          /\ Before(InstantOf(ri.visited_at), InstantOf(rj.visited_at))) => i < j

\* C14: a registration whose handle is missing or no string of 3 to 20
\* characters, or whose credential is not 4 to 6 digits, is answered 400 and
\* creates no user and no session.
C14_ValidationClaim ==
  [][(last'.op = "register" /\ ~WellFormed(last'.username, last'.pin)) =>
       (last'.status = 400 /\ users' = users /\ sessions' = sessions)]_vars

\* C15: every response is a 200, 400, 401 or 500 written by the handler; no
\* exception leaves a handler.
C15_CaughtClaim ==
  last.op # "idle" => (last.status \in {200, 400, 401, 500} /\ ~last.thrown)

\* C16: stored handles are lowercase and pairwise distinct; register, login
\* and the availability check act on the lowercase form of the handle given.
C16_Handles ==
  /\ \A u \in users : IsLowerCase(u.username)
  /\ \A u1, u2 \in users : u1.username = u2.username => u1 = u2
  /\ last.op = "check" =>
       (last.exists <=>
          \E u \in users : u.username = ToLowerCase(last.username.chars))
  /\ (last.op \in {"register", "login"} /\ last.status = 200) =>
       /\ last.userOut.username = ToLowerCase(last.username.chars)
       /\ IsLowerCase(last.userOut.username)

\* a login naming a handle in upper case has succeeded as the lowercase account
C16_Witness ==
  /\ last.op = "login" /\ last.status = 200
  /\ last.username = Str(Bob) /\ last.userOut.username = bob

\* C17: req.user and the user of a response hold id and username only, the
\* latter those of an account; a login is answered the same on every users
\* table that differs only in the credentials of other accounts.
C17_NoCredential ==
  /\ DOMAIN last.user = {"id", "username"}
  /\ DOMAIN last.userOut = {"id", "username"}
  /\ (last.op \in {"me", "register", "login"} /\ last.status = 200) =>
       \E u \in users : last.userOut = [id |-> u.id, username |-> u.username]
  /\ (last.op = "login" /\ last.status = 200) =>
       \A rows \in OtherCredentials(last.username) :
         LET other == verifyUserIn(rows, last.username, last.pin) IN
         [id |-> other.id, username |-> other.username] = last.userOut

\* a login has succeeded while another account holds a different credential
C17_Witness ==
  /\ last.op = "login" /\ last.status = 200
  /\ \E u \in users : u.id # last.userOut.id /\ u.pin # last.pin.chars

\* C18: the availability check answers exists iff the lowercase handle has an
\* account and changes nothing; a well-formed registration succeeds iff the
\* lowercase handle has no account, and is answered 400 otherwise; only a
\* registration changes the users table.
C18_Check ==
  [][/\ last'.op = "check" =>
          /\ last'.status = 200
          /\ last'.exists <=> HandleKnown(last'.username)
          /\ UNCHANGED <<users, sessions, visited_stations, seq>>
     /\ (last'.op = "register" /\ WellFormed(last'.username, last'.pin)) =>
          /\ last'.status = 200 <=> ~HandleKnown(last'.username)
          /\ last'.status \in {200, 400}
     /\ users' # users => last'.op = "register"
    ]_vars

\* the check has found the account of a handle given in upper case
C18_Witness ==
  /\ last.op = "check" /\ last.exists
  /\ last.username = Str(Bob)

\* the calls of a returned toggleStation were all answered OK
AllOk(f) == Ids(f.calls) = f.okIds

\* what C19 says of a returned toggleStation call
ToggleDone(f) ==
  LET members == complexStations(f.station) IN
  \A i \in 1..Len(members) :
    /\ includes(visitedStations, members[i]) = ~f.unmark
    /\ OnServer(client.user.id, members[i]) = ~f.unmark
    /\ Count(f.calls, members[i]) = IF members[i] \in f.need THEN 1 ELSE 0

\* C19 as claimed: after a toggle that ran with no other toggle in flight and
\* whose calls all succeeded, every member of the complex is in the mirror
\* and on the server iff the toggled station was not in the mirror before,
\* and one call was issued for each member that was not in that state.
C19_ToggleClaim ==
  \A t \in 1..Len(toggles) :
    (toggles[t].phase = "done" /\ toggles[t].alone /\ AllOk(toggles[t])) =>
      ToggleDone(toggles[t])

\* C19 as amended: the same, for a toggle that started with a mirror holding
\* each member of the complex once when the server held its mark and not at
\* all otherwise.
C19_Toggle ==
  \A t \in 1..Len(toggles) :
    (/\ toggles[t].phase = "done" /\ toggles[t].alone /\ AllOk(toggles[t])
     /\ toggles[t].agreed) =>
      ToggleDone(toggles[t])

\* a toggle has unmarked, alone and with two successful calls, a complex
\* that mirror and server both held
C19_Witness ==
  \E t \in 1..Len(toggles) :
    /\ toggles[t].phase = "done" /\ toggles[t].alone /\ toggles[t].agreed
    /\ toggles[t].unmark /\ Len(toggles[t].calls) = 2
    /\ toggles[t].okIds = {"A01", "B02"}

\* C20: when a toggle of which some call failed ends, each of its successful
\* calls has changed the mirror by its own id and by nothing else, and its
\* failed calls have changed nothing.
C20_PartialClaim ==
  \A t \in 1..Len(toggles) :
    (Finished(toggles[t]) /\ ~AllOk(toggles[t])) => toggles[t].clean

\* every toggleStation and clearAll call of the page has returned
NoneInFlight == \A t \in 1..Len(toggles) : Finished(toggles[t])

\* the stations the store holds as marked for the user of the page
MarkedOnServer == {r.station_id : r \in RowsOf(client.user.id)}

\* C21: when every request of the page was answered OK and none is in
\* flight, the ids in the mirror are the stations marked on the server.
C21_TransientClaim ==
  (client.page = "app" /\ client.ok /\ NoneInFlight) =>
    Ids(visitedStations) = MarkedOnServer

\* C28: no station id occurs twice in visitedStations.
C28_SetClaim == \A s \in STATIONS : Count(visitedStations, s) <= 1

\* a complex is entirely in the set or entirely out of it
Entire(ids) ==
  \A s \in STATIONS :
    LET members == Ids(getComplexStations(s)) IN
    members \subseteq ids \/ members \cap ids = {}

\* C29: when every request of the page (toggles only, started on a mirror
\* with entire complexes) was answered OK and none is in flight, every
\* complex is entirely visited or entirely unvisited in the mirror and on the
\* server.
C29_ComplexClaim ==
  (client.page = "app" /\ client.grouped /\ client.ok /\ NoneInFlight) =>
    (Entire(Ids(visitedStations)) /\ Entire(MarkedOnServer))

\* C30: when no toggle or clear-all is in progress, a marker is filled iff
\* its station is in the mirror and a checkbox is checked iff its station is
\* in the mirror.
C30_RenderClaim ==
  (client.page = "app" /\ NoneInFlight) =>
    /\ client.markers = Ids(visitedStations)
    /\ client.checkboxes = Ids(visitedStations)

\* the three states of the page
Unauthenticated == client.page = "auth" /\ client.auths = <<>>
Authenticating == client.page = "boot" \/ (client.page = "auth" /\ client.auths # <<>>)
Authenticated == client.page \in {"loading", "app"} /\ client.auths = <<>>

\* the user the cookie of the page resolves to
PageUser == getUserFromSession(client.session_id)

\* C22: the page is in exactly one of Unauthenticated, Authenticating and
\* Authenticated; it becomes Authenticated only by a successful auth/me,
\* login or register response; a handleAuth call whose request failed or was
\* lost leaves it Unauthenticated or, with another call running,
\* Authenticating, with the error shown, and sends nothing more; a logout
\* reloads the page without a session.
C22_StatesClaim ==
  [][/\ (Unauthenticated \/ Authenticating \/ Authenticated)'
     /\ (client.page \notin {"loading", "app"}
           /\ client'.page \in {"loading", "app"}) =>
          \/ last'.op = "me" /\ last'.status = 200
          \/ \E k \in 1..Len(client.auths) :
               /\ client.auths[k].phase = "ok"
               /\ client'.auths = Without(client.auths, k)
     /\ \A k \in 1..Len(client.auths) :
          (/\ client.auths[k].phase \in {"failed", "threw"}
           /\ client'.auths = Without(client.auths, k)
           /\ last' = last) =>
             /\ client'.page = "auth"
             /\ client'.error # ""
     /\ (last'.op = "logout" /\ last # last') =>
          /\ client'.page = "boot"
          /\ PageUser' = NoUser
    ]_vars

\* C23: GET api/leaderboard is answered with an array holding one entry per
\* user with the number of that user's marks, in descending order of it.
C23_LeaderboardClaim ==
  last.op = "leaderboard" =>
    /\ last.status = 200
    /\ Len(last.list) = Cardinality(users)
    /\ \A u \in users : \E i \in 1..Len(last.list) :
         last.list[i] = [username |-> u.username,
                         station_count |-> Cardinality(RowsOf(u.id))]
    /\ \A i, j \in 1..Len(last.list) :
         i < j => last.list[i].station_count >= last.list[j].station_count

\* hex text back to bytes
BytesOf(text) ==
  LET value(c) == IF c < 58 THEN c - 48 ELSE c - 87 IN
  [i \in 1..(Len(text) \div 2) |-> 16 * value(text[2 * i - 1]) + value(text[2 * i])]

\* the states Math.random can have been in after the last byte of a session
\* id: its first byte leaves the low bits of the state open, the other bytes
\* settle them
StatesAfter(text) ==
  LET bytes == BytesOf(text)
      low == Modulus \div 256
      first == {bytes[1] * low + r : r \in 0..(low - 1)}
      run(x) == <<x>> \o MathRandom(x, TokenBytes - 1)
  IN {run(x)[TokenBytes] :
        x \in {y \in first :
                 \A i \in 1..TokenBytes : RandomByte(run(y)[i]) = bytes[i]}}

\* the session ids that can follow one whose text is known
Predicted(text) == {SessionIdText(x) : x \in StatesAfter(text)}

\* C24: the session id issued after another is not determined by the text of
\* that one.
C24_UnpredictableClaim ==
  \A s1, s2 \in sessions :
    s2.id = s1.id + 1 => Predicted(s1.text) # {s2.text}

\* the accounts with the default handle
DefaultAccounts == {u \in users : u.username = kartikye}

\* the first startup has run initSchema to its end, one way or the other,
\* on a legacy store
MigrationEnded ==
  /\ startup.runs = 1
  /\ startup.origin.visited = "legacy"
  /\ startup.pc \in {"done", "failed"}

\* C25: on a legacy store initSchema ends with exactly one default account
\* and one mark of it per legacy row, carrying the row's visited_at or the
\* current time, and no other marks; an account with the default handle that
\* exists already is reused and startup does not fail.
C25_MigrationClaim ==
  MigrationEnded =>
    /\ startup.pc = "done"
    /\ Cardinality(DefaultAccounts) = 1
    /\ \A u \in DefaultAccounts :
         visited_stations = MigratedRows(startup.origin.legacy, u.id)

\* every legacy row of the store the server was first started on is a mark of
\* a default account
LegacyMarksKept ==
  \A i \in 1..Len(startup.origin.legacy) :
    \E u \in DefaultAccounts, m \in visited_stations :
      /\ m.user_id = u.id
      /\ m.station_id = startup.origin.legacy[i].station_id

\* C26: the migration is one transaction: wherever the process stopped, a
\* startup that completes on a legacy store (one without a default account at
\* first) leaves every legacy mark attached to the default account.
C26_TransactionClaim ==
  (/\ startup.origin.visited = "legacy"
   /\ \A u \in startup.origin.accounts : u.username # kartikye
   /\ startup.pc = "done")
    => LegacyMarksKept

\* the tables of the store file and their rows
Tables ==
  <<startup.users, startup.sessions, startup.visited, startup.legacy,
    users, sessions, visited_stations>>

\* C27: initSchema never ends in an error, and a startup on the store a
\* completed initSchema left changes no table and no row.
C27_IdempotentClaim ==
  [][/\ startup'.pc # "failed"
     /\ startup.rerun => Tables' = Tables]_vars

\* C33: a logout deletes the session row of its token and no other: every
\* other session resolves as before, users and marks are unchanged; a login
\* or a registration keeps every session row and what it resolves to.
C33_OnlyThatSession ==
  [][/\ last'.op = "logout" =>
          /\ sessions' = {s \in sessions : s.id # last'.cookie}
          /\ \A s \in sessions :
               s.id # last'.cookie =>
                 getUserFromSession(s.id)' = getUserFromSession(s.id)
          /\ users' = users /\ visited_stations' = visited_stations
     /\ last'.op \in {"login", "register"} =>
          /\ sessions \subseteq sessions'
          /\ \A s \in sessions :
               getUserFromSession(s.id)' = getUserFromSession(s.id)
    ]_vars

\* a logout has deleted one session of a user whose other session resolves
C33_Witness ==
  /\ last.op = "logout" /\ last.user # NoUser
  /\ ~\E s \in sessions : s.id = last.cookie
  /\ \E s \in sessions : getUserFromSession(s.id) = last.user

\* initSchema has ended, one way or the other
Ended == startup.pc \in {"done", "failed"}

\* C34: after initSchema on a store without a visited_stations table the
\* account kartikye with PIN 4569 exists, so that the pair logs in and the
\* handle cannot be registered; a startup on the current schema creates and
\* alters no account.
C34_DefaultAccountClaim ==
  [][/\ (startup.found = "absent" /\ Ended)' =>
          /\ (verifyUser(Str(kartikye), Str(pin4569)) # NoUser)'
          /\ UsernameTaken(createUser(Str(kartikye), Str(pin1234)))'
     /\ startup'.found = "current" => users' = users
    ]_vars

\* the popup of the marker of toggles[t]'s station still shows what the click
\* that started toggles[t] wrote
PopupOf(t) ==
  /\ toggles[t].popup # NoPopup
  /\ \A u \in (t + 1)..Len(toggles) :
       toggles[u].station = toggles[t].station => toggles[u].popup = NoPopup

\* C36: when the toggle a marker click started has completed with every call
\* answered OK, the marker's popup says 'Visited' exactly if the station is
\* in the local mirror.
C36_PopupClaim ==
  \A t \in 1..Len(toggles) :
    (toggles[t].phase = "done" /\ AllOk(toggles[t]) /\ PopupOf(t)) =>
      toggles[t].popup = PopupText(toggles[t].station, visitedStations)

\* C32: within one page load initMap and attachEventListeners run at most
\* once, whatever the order of the auth form's submissions and responses, and
\* no authentication error is shown once the page is authenticated.
C32_OnceClaim ==
  /\ client.inits <= 1
  /\ client.listeners <= 1
  /\ client.page \in {"loading", "app"} => client.error = ""

\* the station's line list contains the line, or the line is 'all'
OnLine(station, line) ==
  line = ALL \/ line \in {split(station.lines)[j] :
                            j \in 1..Len(split(station.lines))}

\* the catalog's record of a station
StationOf(id) ==
  client.stations[CHOOSE k \in 1..Len(client.stations) :
                    client.stations[k].id = id]

\* the complexes of the catalog, each the set of its members
Complexes ==
  {Ids(complexStations(client.stations[k].id)) : k \in 1..Len(client.stations)}

\* the complexes with a member on the selected line that satisfies the test
Counted(Test(_)) ==
  Cardinality({c \in Complexes :
                 \E id \in c : /\ OnLine(StationOf(id), client.currentLineFilter)
                               /\ Test(id)})

\* the numbers displayed count the complexes of the selected line
StatsRight ==
  /\ client.stats.visited = Counted(LAMBDA id : includes(visitedStations, id))
  /\ client.stats.total = Counted(LAMBDA id : TRUE)
  /\ client.stats.visited <= client.stats.total

\* C31: when a toggle or a clear-all has returned, and when the line filter
\* has changed, the numbers displayed are those of the distinct complexes with
\* a member on the selected line: the visited ones (a member on the line is in
\* the mirror) and all of them, visited never above total.
C31_StatsClaim ==
  [][((~Quiet)' \/ client'.currentLineFilter # client.currentLineFilter)
       => StatsRight']_vars

\* C35: the items displayed in the list are those whose text contains the
\* content of the search box, letter case apart, also right after the line
\* filter has changed.
C35_SearchClaim ==
  client.listeners > 0 =>
    \A i \in 1..Len(client.list) :
      client.list[i].shown <=>
        Contains(ToLowerCase(client.list[i].text), ToLowerCase(client.query))

\* the lines laid out west to east
WestToEast == {<<76>>, <<71>>, <<77>>, <<83>>}

\* C37: the list holds the stations whose line list contains the selected
\* line (all for 'all'), each once, sorted by name for 'all', by longitude
\* ascending for L, G, M and S, by latitude descending for any other line.
C37_ListOrder ==
  LET line == client.currentLineFilter
      list == client.list
      at(i) == StationOf(list[i].id)
  IN client.listeners > 0 =>
       /\ \A k \in 1..Len(client.stations) :
            OnLine(client.stations[k], line) <=>
              \E i \in 1..Len(list) : list[i].id = client.stations[k].id
       /\ \A i, j \in 1..Len(list) : list[i].id = list[j].id => i = j
       /\ \A i, j \in 1..Len(list) :
            i < j =>
              IF line = ALL THEN ~TextLess(at(j).name, at(i).name)
              ELSE IF line \in WestToEast THEN at(i).lon <= at(j).lon
              ELSE at(i).lat >= at(j).lat

\* the list of line L holds two stations of which the western one is the
\* southern one
C37_Witness ==
  /\ client.listeners > 0
  /\ client.currentLineFilter = <<76>>
  /\ \E i, j \in 1..Len(client.list) :
       /\ i < j
       /\ StationOf(client.list[i].id).lon < StationOf(client.list[j].id).lon
       /\ StationOf(client.list[i].id).lat < StationOf(client.list[j].id).lat

====
